---- MODULE Spec2Model ----
(***************************************************************************)
(* Verification model of arm5-tools (pyarm5):                              *)
(*   - arm5/io/hashio.py        the hash-validating wrapper of open()      *)
(*   - arm5/datamodels/times.py Seasons, YearSeason and iter_between       *)
(*   - arm5/datamodels/arts.py  the alias-aware Art enumerations           *)
(*   - pyarm5/bases.py          StrFlag, the prefix-parsed flag base       *)
(* The specifications share the variables: Spec and SpecDefault (hashio),  *)
(* SpecTimes, SpecParse and SpecSeasons.  Each leaves the variables of the *)
(* others untouched.                                                       *)
(***************************************************************************)
EXTENDS Integers, Sequences, FiniteSets, TLC

VARIABLES
    P,        \* the tracked file `path`:           [exists, data]
    D,        \* the digest file `hash_path`:       [exists, data]
    pc,       \* position of the running hash_open call / with-block
    call,     \* arguments of the running (or last) call and its wrapper
    fp,       \* the file object returned by builtins.open
    tracked,  \* _HashFileWrapper.path / .hash_path are set (not None)
    warned,   \* warnings.warn was called by the running (or last) call
    outcome,  \* what the last finished operation produced
    start,    \* iter_between: argument `start`
    end,      \* iter_between: argument `end`
    yielded,  \* iter_between: the periods it yields, as a list
    cmp,      \* the comparison operators applied to (start, end)
    cls,      \* the enumeration class a string is parsed with
    value,    \* the string handed to cls(value)
    result    \* the member returned, or the error raised

iovars == <<P, D, pc, call, fp, tracked, warned, outcome>>
timevars == <<start, end, yielded, cmp>>
parsevars == <<cls, value, result>>
vars == <<P, D, pc, call, fp, tracked, warned, outcome,
          start, end, yielded, cmp, cls, value, result>>

(***************************************************************************)
(* Bounds                                                                  *)
(***************************************************************************)
\* longest content of the tracked file
MaxLen == 2
\* the bytes a content is made of are 1..MaxByte
MaxByte == 2
\* the years of the periods are 1..MaxYear
MaxYear == 4

Bytes == 1..MaxByte

Contents == UNION {[1..n -> Bytes] : n \in 0..MaxLen}

(***************************************************************************)
(* hashio: files, digests, validation                                      *)
(***************************************************************************)
NoFile == [exists |-> FALSE, data |-> <<>>]

File(bytes) == [exists |-> TRUE, data |-> bytes]

ClosedFile == [open |-> FALSE, writable |-> FALSE, append |-> FALSE,
               pos |-> 0, buf |-> <<>>]

\* The bytes written to a digest file by hand in the tests (b"12345"): no
\* digest of any content.
Garbage == <<>>

RECURSIVE file_digest(_)
\* hashlib.file_digest(fp, "sha256").digest(): a function of the whole content,
\* free of collisions on the contents of the model, returned as raw bytes.
file_digest(bytes) ==
    IF bytes = <<>> THEN 7
    ELSE file_digest(SubSeq(bytes, 1, Len(bytes) - 1)) * 31 + bytes[Len(bytes)]

\* path_digest(path, digest): opens the path "rb" and digests what is on disk.
path_digest(path) == <<file_digest(path.data)>>

\* validate_path with the `raise` forgotten: every mismatch only warns.
validate_path_never_raises(path, expected, on_error) ==
    IF expected # path_digest(path) THEN "warn" ELSE "ok"

\* validate_path with the policy ignored: every mismatch raises.
validate_path_always_raises(path, expected, on_error) ==
    IF expected # path_digest(path) THEN "raise" ELSE "ok"

\* validate_path(path, digest, expected, on_error): "ok", or what the mismatch
\* does: "raise" (OSError) or "warn" (warnings.warn).
validate_path(path, expected, on_error) ==
    LET actual == path_digest(path)
    IN  IF expected # actual
        THEN IF on_error = "raise" THEN "raise" ELSE "warn"
        ELSE "ok"

\* hash_open, "Validate the file is applicable": the guard and the call.
Validation(path, hash_path, on_error) ==
    IF on_error # "ignore" /\ path.exists /\ hash_path.exists
    THEN validate_path(path, hash_path.data, on_error)
    ELSE "ok"

\* any(m in mode for m in "wa")
HasWA(mode) == \E i \in DOMAIN mode : mode[i] \in {"w", "a"}

Has(mode, ch) == \E i \in DOMAIN mode : mode[i] = ch

\* The modes handed to the wrapper: "r", "w", "a", "x", "r+".
Modes == {<<"r">>, <<"w">>, <<"a">>, <<"x">>, <<"r", "+">>}

OnError == {"raise", "warn", "ignore"}

\* builtins.open(path, mode) on the file system: the error it raises, or "".
OpenError(path, mode) ==
    IF Has(mode, "r") /\ ~path.exists THEN "FileNotFoundError"
    ELSE IF Has(mode, "x") /\ path.exists THEN "FileExistsError"
    ELSE ""

\* builtins.open(path, mode): what is on disk once the open succeeded.
OpenedPath(path, mode) ==
    IF Has(mode, "w") \/ Has(mode, "x") THEN File(<<>>)
    ELSE IF Has(mode, "a") /\ ~path.exists THEN File(<<>>)
    ELSE path

\* builtins.open(path, mode): the file object.
OpenedFile(mode) ==
    [open |-> TRUE,
     writable |-> Has(mode, "w") \/ Has(mode, "a") \/ Has(mode, "x") \/ Has(mode, "+"),
     append |-> Has(mode, "a"),
     pos |-> 0,
     buf |-> <<>>]

\* The content on disk once the buffer of the file object is written out.
Flushed(path, f) ==
    IF f.buf = <<>> THEN path
    ELSE IF f.append THEN File(path.data \o f.buf)
    ELSE File(SubSeq(path.data, 1, f.pos) \o f.buf
              \o SubSeq(path.data, f.pos + Len(f.buf) + 1, Len(path.data)))

(***************************************************************************)
(* hashio: the steps of hash_open, the with-block and __exit__             *)
(***************************************************************************)
\* hash_open(*args, **kwargs) is entered: the arguments are bound.  The wrapper
\* called was built by wrap_open(open, hash_on_write=how, on_error=policy).
hash_open_call(mode, policy, how) ==
    /\ pc = "idle"
    /\ pc' = "validate"
    /\ call' = [mode |-> mode, on_error |-> policy, hash_on_write |-> how]
    /\ warned' = FALSE
    /\ outcome' = "calling"
    /\ UNCHANGED <<P, D, fp, tracked>>

\* "Validate the file is applicable"
hash_open_validate ==
    /\ pc = "validate"
    /\ LET v == Validation(P, D, call.on_error)
       IN  IF v = "raise"
           THEN /\ pc' = "idle"
                /\ outcome' = "OSError"
                /\ UNCHANGED warned
           ELSE /\ pc' = "unlink"
                /\ warned' = (v = "warn")
                /\ UNCHANGED outcome
    /\ UNCHANGED <<P, D, call, fp, tracked>>

\* hash_open_unlink testing the mode for "w" alone: append keeps the digest.
hash_open_unlink_write_only ==
    /\ pc = "unlink"
    /\ pc' = "open"
    /\ D' = IF Has(call.mode, "w") /\ D.exists THEN NoFile ELSE D
    /\ UNCHANGED <<P, call, fp, tracked, warned, outcome>>

\* "Remove the saved hash file during edition"
hash_open_unlink ==
    /\ pc = "unlink"
    /\ pc' = "open"
    /\ D' = IF HasWA(call.mode) /\ D.exists THEN NoFile ELSE D
    /\ UNCHANGED <<P, call, fp, tracked, warned, outcome>>

\* hash_open_open with hash_on_write not consulted: every write is hashed.
hash_open_open_ignores_flag ==
    /\ pc = "open"
    /\ LET err == OpenError(P, call.mode)
       IN  IF err # ""
           THEN /\ pc' = "idle"
                /\ outcome' = err
                /\ UNCHANGED <<P, fp, tracked>>
           ELSE /\ pc' = "held"
                /\ outcome' = "handle"
                /\ P' = OpenedPath(P, call.mode)
                /\ fp' = OpenedFile(call.mode)
                /\ tracked' = HasWA(call.mode)
    /\ UNCHANGED <<D, call, warned>>

\* "Open the file and schedule hashing on close if applicable"
hash_open_open ==
    /\ pc = "open"
    /\ LET err == OpenError(P, call.mode)
       IN  IF err # ""
           THEN /\ pc' = "idle"
                /\ outcome' = err
                /\ UNCHANGED <<P, fp, tracked>>
           ELSE /\ pc' = "held"
                /\ outcome' = "handle"
                /\ P' = OpenedPath(P, call.mode)
                /\ fp' = OpenedFile(call.mode)
                /\ tracked' = (HasWA(call.mode) /\ call.hash_on_write)
    /\ UNCHANGED <<D, call, warned>>

\* file.write(...) inside the with-block: the bytes stay in the buffer.
Write(b) ==
    /\ pc = "held"
    /\ fp.writable
    /\ IF fp.append
       THEN Len(P.data) + Len(fp.buf) < MaxLen
       ELSE fp.pos + Len(fp.buf) < MaxLen
    /\ fp' = [fp EXCEPT !.buf = Append(@, b)]
    /\ UNCHANGED <<P, D, pc, call, tracked, warned, outcome>>

\* The buffer is written out while the block still runs (file.flush(), or the
\* buffer filling up).
Flush ==
    /\ pc = "held"
    /\ fp.buf # <<>>
    /\ P' = Flushed(P, fp)
    /\ fp' = [fp EXCEPT !.pos = IF fp.append THEN 0 ELSE @ + Len(fp.buf),
                        !.buf = <<>>]
    /\ UNCHANGED <<D, pc, call, tracked, warned, outcome>>

\* __exit__ with the two statements swapped: the digest is taken before
\* file.__exit__ has closed (and so flushed) the file.
HashFileWrapper_exit_hash_before_close(exc) ==
    /\ pc = "held"
    /\ P' = Flushed(P, fp)
    /\ D' = IF tracked THEN File(path_digest(P)) ELSE D
    /\ fp' = ClosedFile
    /\ tracked' = FALSE
    /\ pc' = "idle"
    /\ outcome' = IF exc THEN "propagated" ELSE "closed"
    /\ UNCHANGED <<call, warned>>

\* _HashFileWrapper.__exit__(*args): the block ended normally (exc = FALSE) or
\* with an exception (exc = TRUE), which file.__exit__ does not swallow.
HashFileWrapper_exit(exc) ==
    /\ pc = "held"
    /\ LET closed == Flushed(P, fp)
       IN  /\ P' = closed
           /\ D' = IF tracked THEN File(path_digest(closed)) ELSE D
    /\ fp' = ClosedFile
    /\ tracked' = FALSE
    /\ pc' = "idle"
    /\ outcome' = IF exc THEN "propagated" ELSE "closed"
    /\ UNCHANGED <<call, warned>>

\* The process dies (the "crash" of the docstring of wrap_open): nothing more
\* of the call runs, the buffer is lost.
Interrupt ==
    /\ pc # "idle"
    /\ pc' = "idle"
    /\ fp' = ClosedFile
    /\ tracked' = FALSE
    /\ outcome' = "interrupted"
    /\ UNCHANGED <<P, D, call, warned>>

\* The tracked file is written without the wrapper (path.write_bytes).
ExternalWrite(bytes) ==
    /\ pc = "idle"
    /\ P' = File(bytes)
    /\ outcome' = "external"
    /\ UNCHANGED <<D, pc, call, fp, tracked, warned>>

\* The digest file is written by hand (hash_path.write_bytes): the digest of
\* the tracked file, or bytes that are no digest.
ExternalHash(valid) ==
    /\ pc = "idle"
    /\ P.exists
    /\ D' = File(IF valid THEN path_digest(P) ELSE Garbage)
    /\ outcome' = "external"
    /\ UNCHANGED <<P, pc, call, fp, tracked, warned>>

\* The tracked file is removed without the wrapper.
ExternalRemove ==
    /\ pc = "idle"
    /\ P.exists
    /\ P' = NoFile
    /\ outcome' = "external"
    /\ UNCHANGED <<D, pc, call, fp, tracked, warned>>

(***************************************************************************)
(* times: Seasons and YearSeason                                           *)
(***************************************************************************)
\* `for season in Seasons`: the members in definition order, aliases left out.
Seasons == <<"SPRING", "SUMMER", "AUTUMN", "WINTER">>

\* Seasons.__members__.values(): every name of the class body, FALL included,
\* which is the member AUTUMN.
Seasons_members == <<"SPRING", "SUMMER", "AUTUMN", "WINTER", "AUTUMN">>

\* Seasons._enumeration_order: list(...).index(self), counted from 0.
enumeration_order(season) ==
    (CHOOSE i \in DOMAIN Seasons_members :
        /\ Seasons_members[i] = season
        /\ \A j \in DOMAIN Seasons_members : j < i => Seasons_members[j] # season) - 1

Seasons_ge(a, b) == enumeration_order(a) >= enumeration_order(b)

Seasons_gt(a, b) == enumeration_order(a) > enumeration_order(b)

Seasons_le(a, b) == enumeration_order(a) <= enumeration_order(b)

Seasons_lt(a, b) == enumeration_order(a) < enumeration_order(b)

YearSeason(year, season) == [year |-> year, season |-> season]

\* __lt__ without `self.year == other.year` in front of the season test.
YearSeason_lt_no_year_guard(self, other) ==
    self.year < other.year \/ Seasons_lt(self.season, other.season)

\* YearSeason.__lt__
YearSeason_lt(self, other) ==
    self.year < other.year
        \/ (self.year = other.year /\ Seasons_lt(self.season, other.season))

\* YearSeason.__eq__ (pydantic.BaseModel): the fields are equal.
YearSeason_eq(self, other) ==
    self.year = other.year /\ self.season = other.season

\* functools.total_ordering derives the other three from __lt__ and __eq__.
YearSeason_le(self, other) == YearSeason_lt(self, other) \/ YearSeason_eq(self, other)

YearSeason_gt(self, other) == ~YearSeason_lt(self, other) /\ ~YearSeason_eq(self, other)

YearSeason_ge(self, other) == ~YearSeason_lt(self, other)

\* range(a, b) as a list
Range(a, b) == [i \in 1..(IF b > a THEN b - a ELSE 0) |-> a + i - 1]

\* [season for season in Seasons if season >= first]
SeasonsFrom(first) == SelectSeq(Seasons, LAMBDA season : Seasons_ge(season, first))

\* [season for season in Seasons if season <= last]
SeasonsUpTo(last) == SelectSeq(Seasons, LAMBDA season : Seasons_le(season, last))

\* The years of the middle loop followed by all their seasons.
WholeYears(years) ==
    [i \in 1..(Len(years) * Len(Seasons)) |->
        YearSeason(years[((i - 1) \div Len(Seasons)) + 1],
                   Seasons[((i - 1) % Len(Seasons)) + 1])]

InYear(year, seasons) == [i \in 1..Len(seasons) |-> YearSeason(year, seasons[i])]

\* iter_between with the middle loop running up to end.year included.
iter_between_inclusive_range(s, e) ==
    IF YearSeason_lt(e, s) THEN <<>>
    ELSE InYear(s.year, SeasonsFrom(s.season))
            \o WholeYears(Range(s.year + 1, e.year + 1))
            \o InYear(e.year, SeasonsUpTo(e.season))

\* iter_between with the early return comparing the years alone.
iter_between_year_guard(s, e) ==
    IF e.year < s.year THEN <<>>
    ELSE InYear(s.year, SeasonsFrom(s.season))
            \o WholeYears(Range(s.year + 1, e.year))
            \o InYear(e.year, SeasonsUpTo(e.season))

\* YearSeason.iter_between(start, end): everything the generator yields.
iter_between(s, e) ==
    IF YearSeason_lt(e, s) THEN <<>>
    ELSE InYear(s.year, SeasonsFrom(s.season))
            \o WholeYears(Range(s.year + 1, e.year))
            \o InYear(e.year, SeasonsUpTo(e.season))

\* Year is a pydantic.PositiveInt.
Years == 1..MaxYear

Periods == {YearSeason(y, Seasons[i]) : y \in Years, i \in DOMAIN Seasons}

NoCmp == [op |-> "none", lt |-> FALSE, eq |-> FALSE, le |-> FALSE,
          gt |-> FALSE, ge |-> FALSE]

\* list(YearSeason.iter_between(start, end))
IterBetween ==
    /\ cmp.op = "none"
    /\ yielded' = iter_between(start, end)
    /\ cmp' = [cmp EXCEPT !.op = "iter"]
    /\ UNCHANGED <<start, end>>

\* start < end, start == end, start <= end, start > end, start >= end
Compare ==
    /\ cmp.op = "none"
    /\ cmp' = [op |-> "cmp",
               lt |-> YearSeason_lt(start, end),
               eq |-> YearSeason_eq(start, end),
               le |-> YearSeason_le(start, end),
               gt |-> YearSeason_gt(start, end),
               ge |-> YearSeason_ge(start, end)]
    /\ UNCHANGED <<start, end, yielded>>

(***************************************************************************)
(* arts and bases: parsing a string into a member of an enumeration        *)
(***************************************************************************)
\* A string is the list of its characters.
UpperCase == <<"A", "B", "C", "D", "E", "F", "G", "H", "I", "J", "K", "L", "M", "N", "O", "P", "Q", "R", "S", "T", "U", "V", "W", "X", "Y", "Z">>

LowerCase == <<"a", "b", "c", "d", "e", "f", "g", "h", "i", "j", "k", "l", "m", "n", "o", "p", "q", "r", "s", "t", "u", "v", "w", "x", "y", "z">>

\* str.lower() on one character
lower_char(c) ==
    IF \E i \in DOMAIN UpperCase : UpperCase[i] = c
    THEN LowerCase[CHOOSE i \in DOMAIN UpperCase : UpperCase[i] = c]
    ELSE c

\* str.lower()
lower(s) == [i \in 1..Len(s) |-> lower_char(s[i])]

\* str.startswith(prefix)
startswith(s, prefix) ==
    Len(prefix) <= Len(s) /\ SubSeq(s, 1, Len(prefix)) = prefix

\* ArtEnumBase.__new__(cls, value, *aliases)
ArtMember(name, v, aliases) ==
    [name |-> name, value |-> lower(v), aliases |-> {lower(a) : a \in aliases}]

HermeticTechniques == <<
    ArtMember("CREO", <<"c", "r", "e", "o">>, {<<"c", "r">>}),
    ArtMember("INTELLEGO", <<"i", "n", "t", "e", "l", "l", "e", "g", "o">>, {<<"i", "n">>}),
    ArtMember("MUTO", <<"m", "u", "t", "o">>, {<<"m", "u">>}),
    ArtMember("PERDO", <<"p", "e", "r", "d", "o">>, {<<"p", "e">>}),
    ArtMember("REGO", <<"r", "e", "g", "o">>, {<<"r", "e">>})
>>

HermeticForms == <<
    ArtMember("ANIMAL", <<"a", "n", "i", "m", "a", "l">>, {<<"a", "n">>}),
    ArtMember("AQUAM", <<"a", "q", "u", "a", "m">>, {<<"a", "q">>}),
    ArtMember("AURAM", <<"a", "u", "r", "a", "m">>, {<<"a", "u">>}),
    ArtMember("CORPUS", <<"c", "o", "r", "p", "u", "s">>, {<<"c", "o">>}),
    ArtMember("HERBAM", <<"h", "e", "r", "b", "a", "m">>, {<<"h", "e">>}),
    ArtMember("IGNEM", <<"i", "g", "n", "e", "m">>, {<<"i", "g">>}),
    ArtMember("IMAGINEM", <<"i", "m", "a", "g", "i", "n", "e", "m">>, {<<"i", "m">>}),
    ArtMember("MENTEM", <<"m", "e", "n", "t", "e", "m">>, {<<"m", "e">>}),
    ArtMember("TERRAM", <<"t", "e", "r", "r", "a", "m">>, {<<"t", "e">>}),
    ArtMember("VIM", <<"v", "i", "m">>, {<<"v", "i">>})
>>

\* A member of a Flag: its name as declared; enum.auto() numbers the bits.
FlagMember(name, chars) == [name |-> name, chars |-> chars]

HermeticTechnique == <<
    FlagMember("CREO", <<"C", "R", "E", "O">>),
    FlagMember("INTELLEGO", <<"I", "N", "T", "E", "L", "L", "E", "G", "O">>),
    FlagMember("MUTO", <<"M", "U", "T", "O">>),
    FlagMember("PERDO", <<"P", "E", "R", "D", "O">>),
    FlagMember("REGO", <<"R", "E", "G", "O">>)
>>

HermeticForm == <<
    FlagMember("ANIMAL", <<"A", "N", "I", "M", "A", "L">>),
    FlagMember("AQUAM", <<"A", "Q", "U", "A", "M">>),
    FlagMember("AURAM", <<"A", "U", "R", "A", "M">>),
    FlagMember("CORPUS", <<"C", "O", "R", "P", "U", "S">>),
    FlagMember("HERBAM", <<"H", "E", "R", "B", "A", "M">>),
    FlagMember("IGNEM", <<"I", "G", "N", "E", "M">>),
    FlagMember("IMAGINEM", <<"I", "M", "A", "G", "I", "N", "E", "M">>),
    FlagMember("MENTEM", <<"M", "E", "N", "T", "E", "M">>),
    FlagMember("TERRAM", <<"T", "E", "R", "R", "A", "M">>),
    FlagMember("VIM", <<"V", "I", "M">>)
>>

ArtClasses == {"HermeticTechniques", "HermeticForms"}

FlagClasses == {"HermeticTechnique", "HermeticForm"}

Members(c) ==
    CASE c = "HermeticTechniques" -> HermeticTechniques
      [] c = "HermeticForms" -> HermeticForms
      [] c = "HermeticTechnique" -> HermeticTechnique
      [] c = "HermeticForm" -> HermeticForm

Found(member) == [member |-> member.name, error |-> ""]

Raised(error) == [member |-> "", error |-> error]

\* The first member in iteration order among the members at `hits`.
FirstOf(members, hits) ==
    members[CHOOSE i \in hits : \A j \in hits : i <= j]

\* _missing_ without `value = value.lower()`: the string is compared as given.
ArtEnumBase_missing_case_sensitive(members, v) ==
    LET hits == {i \in DOMAIN members :
                    members[i].value = v \/ v \in members[i].aliases}
    IN  IF hits # {} THEN Found(FirstOf(members, hits)) ELSE Raised("ValueError")

\* ArtEnumBase._missing_(cls, value) for a str; a miss falls back to
\* Enum._missing_, which makes the call raise ValueError.
ArtEnumBase_missing(members, v) ==
    LET low == lower(v)
        hits == {i \in DOMAIN members :
                    members[i].value = low \/ low \in members[i].aliases}
    IN  IF hits # {} THEN Found(FirstOf(members, hits)) ELSE Raised("ValueError")

\* cls(value) of an ArtEnumBase: the lookup by value, then _missing_.
ArtEnum_call(members, v) ==
    LET exact == {i \in DOMAIN members : members[i].value = v}
    IN  IF exact # {} THEN Found(FirstOf(members, exact))
        ELSE ArtEnumBase_missing(members, v)

\* StrFlag._missing_ returning the first match instead of refusing several.
StrFlag_missing_first_match(members, v) ==
    LET low == lower(v)
        matches == {i \in DOMAIN members : startswith(lower(members[i].chars), low)}
    IN  IF matches = {} THEN Raised("Invalid") ELSE Found(FirstOf(members, matches))

\* StrFlag._missing_(cls, value) for a str: a ValueError "Invalid ..." or
\* "Ambiguous ...", or the one member whose name starts with the string.
StrFlag_missing(members, v) ==
    LET low == lower(v)
        matches == {i \in DOMAIN members : startswith(lower(members[i].chars), low)}
    IN  CASE Cardinality(matches) = 0 -> Raised("Invalid")
          [] Cardinality(matches) = 1 -> Found(FirstOf(members, matches))
          [] OTHER -> Raised("Ambiguous")

\* cls(value) of a StrFlag: no member has a str as its value, so the lookup by
\* value misses and _missing_ decides.
StrFlag_call(members, v) == StrFlag_missing(members, v)

\* The strings handed to the parsers: the names, the aliases, every prefix of a
\* name and every name with a letter added, each in every mix of letter cases.
Prefixes(s) == {SubSeq(s, 1, k) : k \in 0..Len(s)}

Cased(s) ==
    {[i \in 1..Len(s) |->
        IF i \in ups /\ \E k \in DOMAIN LowerCase : LowerCase[k] = s[i]
        THEN UpperCase[CHOOSE k \in DOMAIN LowerCase : LowerCase[k] = s[i]]
        ELSE s[i]] : ups \in SUBSET (1..Len(s))}

ArtInputs(members) ==
    UNION {Cased(s) :
        s \in UNION {Prefixes(members[i].value) \cup members[i].aliases
                        \cup {members[i].value \o <<"x">>} : i \in DOMAIN members}}

FlagInputs(members) ==
    UNION {Cased(s) :
        s \in UNION {Prefixes(lower(members[i].chars))
                        \cup {lower(members[i].chars) \o <<"x">>, <<"x">>} :
                     i \in DOMAIN members}}

Inputs(c) == IF c \in ArtClasses THEN ArtInputs(Members(c)) ELSE FlagInputs(Members(c))

Pending == [member |-> "", error |-> "pending"]

\* HermeticTechniques(value), HermeticForms(value)
ParseArt ==
    /\ cls \in ArtClasses
    /\ result = Pending
    /\ result' = ArtEnum_call(Members(cls), value)
    /\ UNCHANGED <<cls, value>>

\* HermeticTechnique(value), HermeticForm(value)
ParseFlag ==
    /\ cls \in FlagClasses
    /\ result = Pending
    /\ result' = StrFlag_call(Members(cls), value)
    /\ UNCHANGED <<cls, value>>

\* Seasons.__new__(cls, value, aliases=None): both are kept as written.
SeasonMember(name, v, aliases) == [name |-> name, value |-> v, aliases |-> aliases]

\* The members of Seasons with their values and aliases; FALL is no member of
\* its own but a second name of AUTUMN.
SeasonsEnum == <<
    SeasonMember("SPRING", <<"s", "p", "r", "i", "n", "g">>, {}),
    SeasonMember("SUMMER", <<"s", "u", "m", "m", "e", "r">>, {}),
    SeasonMember("AUTUMN", <<"a", "u", "t", "u", "m", "n">>, {<<"f", "a", "l", "l">>}),
    SeasonMember("WINTER", <<"w", "i", "n", "t", "e", "r">>, {})
>>

\* Seasons._missing_(cls, value) for a str: the aliases are searched with the
\* string as given; a miss falls back to Enum._missing_ and the call raises
\* ValueError.
Seasons_missing(members, v) ==
    LET hits == {i \in DOMAIN members : v \in members[i].aliases}
    IN  IF hits # {} THEN Found(FirstOf(members, hits)) ELSE Raised("ValueError")

\* Seasons(value): the lookup by value, then _missing_.
Seasons_call(members, v) ==
    LET exact == {i \in DOMAIN members : members[i].value = v}
    IN  IF exact # {} THEN Found(FirstOf(members, exact))
        ELSE Seasons_missing(members, v)

\* Seasons(value)
ParseSeason ==
    /\ cls = "Seasons"
    /\ result = Pending
    /\ result' = Seasons_call(SeasonsEnum, value)
    /\ UNCHANGED <<cls, value>>

IOInit ==
    /\ P = NoFile
    /\ D = NoFile
    /\ pc = "idle"
    /\ call = [mode |-> <<"r">>, on_error |-> "raise", hash_on_write |-> TRUE]
    /\ fp = ClosedFile
    /\ tracked = FALSE
    /\ warned = FALSE
    /\ outcome = "none"

TimeInit ==
    /\ start = [year |-> 1, season |-> "SPRING"]
    /\ end = [year |-> 1, season |-> "SPRING"]
    /\ yielded = <<>>
    /\ cmp = NoCmp

ParseInit ==
    /\ cls = "none"
    /\ value = <<>>
    /\ result = [member |-> "", error |-> ""]

Init == IOInit /\ TimeInit /\ ParseInit

Next ==
    \/ \E mode \in Modes, policy \in OnError, how \in BOOLEAN :
          hash_open_call(mode, policy, how) /\ UNCHANGED <<timevars, parsevars>>
    \/ hash_open_validate /\ UNCHANGED <<timevars, parsevars>>
    \/ hash_open_unlink /\ UNCHANGED <<timevars, parsevars>>
    \/ hash_open_open /\ UNCHANGED <<timevars, parsevars>>
    \/ \E b \in Bytes : Write(b) /\ UNCHANGED <<timevars, parsevars>>
    \/ Flush /\ UNCHANGED <<timevars, parsevars>>
    \/ \E exc \in BOOLEAN : HashFileWrapper_exit(exc) /\ UNCHANGED <<timevars, parsevars>>
    \/ Interrupt /\ UNCHANGED <<timevars, parsevars>>
    \/ \E bytes \in Contents : ExternalWrite(bytes) /\ UNCHANGED <<timevars, parsevars>>
    \/ \E valid \in BOOLEAN : ExternalHash(valid) /\ UNCHANGED <<timevars, parsevars>>
    \/ ExternalRemove /\ UNCHANGED <<timevars, parsevars>>

Spec == Init /\ [][Next]_vars

\* hashio.open, the wrapper the module saves: wrap_open(builtins.open) with the
\* defaults on_error="raise" and hash_on_write=True.  The tracked file starts
\* with any content and a digest file that is absent or right; only complete
\* cycles of open, block and release run, and nothing else touches P or D.
DefaultInit ==
    /\ TimeInit
    /\ ParseInit
    /\ P \in {NoFile} \cup {File(bytes) : bytes \in Contents}
    /\ D \in IF P.exists THEN {NoFile, File(path_digest(P))} ELSE {NoFile}
    /\ pc = "idle"
    /\ call = [mode |-> <<"r">>, on_error |-> "raise", hash_on_write |-> TRUE]
    /\ fp = ClosedFile
    /\ tracked = FALSE
    /\ warned = FALSE
    /\ outcome = "none"

DefaultNext ==
    \/ \E mode \in Modes :
          hash_open_call(mode, "raise", TRUE) /\ UNCHANGED <<timevars, parsevars>>
    \/ hash_open_validate /\ UNCHANGED <<timevars, parsevars>>
    \/ hash_open_unlink /\ UNCHANGED <<timevars, parsevars>>
    \/ hash_open_open /\ UNCHANGED <<timevars, parsevars>>
    \/ \E b \in Bytes : Write(b) /\ UNCHANGED <<timevars, parsevars>>
    \/ Flush /\ UNCHANGED <<timevars, parsevars>>
    \/ \E exc \in BOOLEAN : HashFileWrapper_exit(exc) /\ UNCHANGED <<timevars, parsevars>>

SpecDefault == DefaultInit /\ [][DefaultNext]_vars

\* times: the two periods are drawn, then iterated between or compared.
TimesInit ==
    /\ IOInit
    /\ ParseInit
    /\ start \in Periods
    /\ end \in Periods
    /\ yielded = <<>>
    /\ cmp = NoCmp

TimesNext ==
    \/ IterBetween /\ UNCHANGED <<iovars, parsevars>>
    \/ Compare /\ UNCHANGED <<iovars, parsevars>>

SpecTimes == TimesInit /\ [][TimesNext]_vars

\* parsing: the class and the string are drawn, then the class is called.
ParsingInit ==
    /\ IOInit
    /\ TimeInit
    /\ cls \in ArtClasses \cup FlagClasses
    /\ value \in Inputs(cls)
    /\ result = Pending

ParsingNext ==
    \/ ParseArt /\ UNCHANGED <<iovars, timevars>>
    \/ ParseFlag /\ UNCHANGED <<iovars, timevars>>

SpecParse == ParsingInit /\ [][ParsingNext]_vars

\* parsing a season: the string is drawn, then Seasons is called.
SeasonsInit ==
    /\ IOInit
    /\ TimeInit
    /\ cls = "Seasons"
    /\ value \in ArtInputs(SeasonsEnum)
    /\ result = Pending

SeasonsNext == ParseSeason /\ UNCHANGED <<iovars, timevars>>

SpecSeasons == SeasonsInit /\ [][SeasonsNext]_vars

(***************************************************************************)
(* hashio: the claims                                                      *)
(***************************************************************************)
\* The stored digest exists and differs from the recomputed digest of P.
Mismatch == P.exists /\ D.exists /\ D.data # path_digest(P)

\* The step taken is a step of the call itself, not the death of the process.
Runs == outcome' # "interrupted"

\* The handle is released: __exit__ ran, on the normal or on the error path.
Released == pc = "held" /\ outcome' \in {"closed", "propagated"}

\* C1: under "raise", a call that finds the stored digest different from the
\* recomputed one ends in an error with no handle, never reaches the open of
\* P, and leaves the content of P as it was, in every mode.
C1_RaiseAbortsBeforeOpen ==
    [][(pc = "validate" /\ call.on_error = "raise" /\ Mismatch /\ Runs)
        => /\ pc' = "idle"
           /\ outcome' = "OSError"
           /\ ~fp'.open
           /\ P' = P]_vars

\* C1 witness: a write or append call was refused with OSError and the
\* tracked file still holds its content.
C1_Witness ==
    /\ pc = "idle"
    /\ outcome = "OSError"
    /\ HasWA(call.mode)
    /\ P.exists /\ P.data # <<>>

\* C2: after a write-mode open with hash-on-write and the release of the
\* handle, D holds exactly the raw digest of the final content of P, and the
\* validation of an open under "raise" finds nothing to raise.
C2_DigestRoundTrip ==
    (pc = "idle" /\ outcome \in {"closed", "propagated"}
        /\ Has(call.mode, "w") /\ call.hash_on_write)
    => /\ P.exists
       /\ D = File(<<file_digest(P.data)>>)
       /\ Validation(P, D, "raise") = "ok"

\* C2 witness: content was written through a write-mode handle that was opened
\* over a mismatching digest file, and the handle is released.
C2_Witness ==
    /\ pc = "idle"
    /\ outcome = "closed"
    /\ Has(call.mode, "w") /\ call.hash_on_write
    /\ warned
    /\ Len(P.data) = MaxLen

\* C8: from the moment just before P is opened until the handle is released,
\* a write or append call has no digest file, whatever validation did; an
\* interruption in that span leaves none behind.
C8_NoDigestWhileWriting ==
    /\ []((pc \in {"open", "held"} /\ HasWA(call.mode)) => ~D.exists)
    /\ [][(pc \in {"open", "held"} /\ HasWA(call.mode) /\ ~Runs) => ~D'.exists]_vars

\* C8 witness: an append handle is held, with bytes written, after validation
\* warned about the digest file that existed.
C8_Witness ==
    /\ pc = "held"
    /\ Has(call.mode, "a")
    /\ warned
    /\ fp.buf # <<>>

\* C9: the release closes the handle and, exactly when the mode is write or
\* append and hash-on-write is enabled, writes to D the digest of what is on
\* disk after the close, on the normal and on the error path; otherwise it
\* leaves D as it is.
C9_DigestWrittenAtRelease ==
    [][Released
        => /\ pc' = "idle"
           /\ ~fp'.open
           /\ P' = Flushed(P, fp)
           /\ IF HasWA(call.mode) /\ call.hash_on_write
              THEN D' = File(path_digest(P'))
              ELSE D' = D]_vars

\* C9 witness: a block that wrote through a hashing handle ended with an
\* exception and the digest file is there.
C9_Witness ==
    /\ pc = "idle"
    /\ outcome = "propagated"
    /\ HasWA(call.mode) /\ call.hash_on_write
    /\ P.data # <<>>
    /\ D.exists

\* C10: under "warn" a mismatch is reported and changes nothing else: the call
\* goes on to the unlink and the open with P and D as they were; the open
\* gives a handle (exclusive creation fails on the existing P, as it does with
\* a matching digest); a write or append call has no digest file while the
\* handle is held, and the release writes the digest when hash-on-write is on.
C10_WarnProceeds ==
    /\ [][(pc = "validate" /\ call.on_error = "warn" /\ Mismatch /\ Runs)
           => (warned' /\ pc' = "unlink" /\ P' = P /\ D' = D)]_vars
    /\ [][(warned /\ pc = "open" /\ Runs)
           => IF Has(call.mode, "x")
              THEN pc' = "idle" /\ outcome' = "FileExistsError"
              ELSE pc' = "held" /\ outcome' = "handle" /\ fp'.open]_vars
    /\ []((warned /\ pc \in {"open", "held"} /\ HasWA(call.mode)) => ~D.exists)
    /\ [][(warned /\ Released)
           => IF HasWA(call.mode) /\ call.hash_on_write
              THEN D' = File(path_digest(P'))
              ELSE D' = D]_vars

\* C10 witness: a write call that warned has released its handle and the
\* digest file is rewritten.
C10_Witness ==
    /\ pc = "idle"
    /\ warned
    /\ outcome = "closed"
    /\ HasWA(call.mode) /\ call.hash_on_write
    /\ D.exists

\* C13: under the default wrapper, between complete cycles of open and
\* release in any mode, and with nothing else touching the files, the digest
\* file is absent or holds the digest of the present content of P, so that the
\* validation of the next open finds no mismatch.
C13_DigestNeverStale ==
    pc = "idle"
    => /\ ~D.exists \/ (P.exists /\ D = File(path_digest(P)))
       /\ Validation(P, D, "raise") = "ok"

(***************************************************************************)
(* times: the claims                                                       *)
(***************************************************************************)
\* The declaration order of the four seasons, 0..3.
Rank(season) ==
    CASE season = "SPRING" -> 0
      [] season = "SUMMER" -> 1
      [] season = "AUTUMN" -> 2
      [] season = "WINTER" -> 3

SeasonOfRank(r) ==
    CASE r = 0 -> "SPRING"
      [] r = 1 -> "SUMMER"
      [] r = 2 -> "AUTUMN"
      [] r = 3 -> "WINTER"

\* The position of a period on the line of all periods.
Index(p) == 4 * p.year + Rank(p.season)

Before(a, b) ==
    a.year < b.year \/ (a.year = b.year /\ Rank(a.season) < Rank(b.season))

\* C3: for start <= end the periods yielded are exactly those from start to
\* end, each once, in ascending order; iter_between(x, x) yields x alone.
C3_ExactlyTheInterval ==
    (cmp.op = "iter" /\ ~Before(end, start))
    => /\ Len(yielded) = Index(end) - Index(start) + 1
       /\ \A i \in 1..Len(yielded) : Index(yielded[i]) = Index(start) + i - 1

\* C4: for start.year < end.year the periods yielded are the seasons of
\* start.year from start.season to WINTER, then the four seasons of every year
\* in between, then the seasons of end.year from SPRING to end.season;
\* (4 - rank(start.season)) + 4 * (end.year - start.year - 1)
\* + (rank(end.season) + 1) periods in all.
C4_ThreeSegments ==
    (cmp.op = "iter" /\ start.year < end.year)
    => LET n1 == 4 - Rank(start.season)
           n2 == 4 * (end.year - start.year - 1)
           n3 == Rank(end.season) + 1
       IN  /\ Len(yielded) = n1 + n2 + n3
           /\ \A i \in 1..n1 :
                 yielded[i] = YearSeason(start.year,
                                         SeasonOfRank(Rank(start.season) + i - 1))
           /\ \A i \in 1..n2 :
                 yielded[n1 + i] = YearSeason(start.year + 1 + ((i - 1) \div 4),
                                              SeasonOfRank((i - 1) % 4))
           /\ \A i \in 1..n3 :
                 yielded[n1 + n2 + i] = YearSeason(end.year, SeasonOfRank(i - 1))

\* C4 witness: the scenario of the tests, (2, AUTUMN) to (4, SUMMER), 8 periods.
C4_Witness ==
    /\ cmp.op = "iter"
    /\ start = YearSeason(2, "AUTUMN")
    /\ end = YearSeason(4, "SUMMER")
    /\ Len(yielded) = 8

\* C5: the order of YearSeason is total and lexicographic on (year, declaration
\* order of the season): exactly one of <, ==, > holds; == is equality of both
\* fields; < is the lexicographic order; <=, > and >= agree with it.
C5_TotalLexicographicOrder ==
    cmp.op = "cmp"
    => /\ (cmp.lt /\ ~cmp.eq /\ ~cmp.gt)
            \/ (~cmp.lt /\ cmp.eq /\ ~cmp.gt)
            \/ (~cmp.lt /\ ~cmp.eq /\ cmp.gt)
       /\ cmp.eq <=> (start.year = end.year /\ start.season = end.season)
       /\ cmp.lt <=> Before(start, end)
       /\ cmp.gt <=> Before(end, start)
       /\ cmp.le <=> (Before(start, end) \/ start = end)
       /\ cmp.ge <=> (Before(end, start) \/ start = end)

\* C5 witness: two periods of one year, told apart by the season alone.
C5_Witness ==
    /\ cmp.op = "cmp"
    /\ start.year = end.year
    /\ start.season = "AUTUMN" /\ end.season = "WINTER"
    /\ cmp.lt /\ cmp.le /\ ~cmp.gt /\ ~cmp.ge /\ ~cmp.eq

\* C11: for end < start, in the same year or not, iter_between yields nothing
\* (and ends without an error: the list of its periods is there, and empty).
C11_EmptyWhenEndBeforeStart ==
    (cmp.op = "iter" /\ Before(end, start)) => yielded = <<>>

\* C11 witness: end lies before start in the same year and the iteration ran.
C11_Witness ==
    /\ cmp.op = "iter"
    /\ start = YearSeason(2, "WINTER")
    /\ end = YearSeason(2, "SUMMER")
    /\ yielded = <<>>

(***************************************************************************)
(* arts and bases: the claims                                              *)
(***************************************************************************)
\* Two characters are the same letter, whatever their case.
SameLetter(c, d) ==
    c = d \/ \E k \in DOMAIN LowerCase : {c, d} = {LowerCase[k], UpperCase[k]}

\* Two strings are equal up to the case of their letters.
SameWord(s, t) ==
    Len(s) = Len(t) /\ \A i \in 1..Len(s) : SameLetter(s[i], t[i])

\* s is, up to the case of its letters, a prefix of t.
PrefixOfWord(s, t) ==
    Len(s) <= Len(t) /\ SameWord(s, SubSeq(t, 1, Len(s)))

\* The canonical name and the aliases of a member of an Art enumeration.
Spellings(member) == {member.value} \cup member.aliases

\* C6: a string equal, in any letter case, to the canonical name or an alias
\* of a member of HermeticTechniques or HermeticForms parses to that member,
\* as the canonical lowercase name does; a string equal to no name and no
\* alias is rejected with the unknown-value error (ValueError); the names and
\* aliases of different members are pairwise distinct.
C6_AliasAwareParsing ==
    (cls \in ArtClasses /\ result # Pending)
    => LET members == Members(cls)
           named == {i \in DOMAIN members :
                        \E w \in Spellings(members[i]) : SameWord(value, w)}
       IN  /\ \A i \in named :
                 /\ result = Found(members[i])
                 /\ result = ArtEnum_call(members, members[i].value)
           /\ named = {} => result = Raised("ValueError")
           /\ \A i, j \in DOMAIN members :
                 i # j => Spellings(members[i]) \cap Spellings(members[j]) = {}

\* C6 witness: the alias of IMAGINEM in capitals parsed to IMAGINEM.
C6_Witness ==
    /\ cls = "HermeticForms"
    /\ value = <<"I", "M">>
    /\ result = [member |-> "IMAGINEM", error |-> ""]

\* C7: a string handed to HermeticTechnique or HermeticForm is, lower-cased,
\* a prefix of the names of some members: exactly one gives that member, two
\* or more the ambiguous-value error, none the invalid-value error; so every
\* full name and every 2-letter prefix of a name gives its member.
C7_PrefixParsing ==
    (cls \in FlagClasses /\ result # Pending)
    => LET members == Members(cls)
           matching == {i \in DOMAIN members : PrefixOfWord(value, members[i].chars)}
       IN  /\ Cardinality(matching) = 1
                 => \A i \in matching : result = Found(members[i])
           /\ Cardinality(matching) >= 2 => result = Raised("Ambiguous")
           /\ Cardinality(matching) = 0 => result = Raised("Invalid")
           /\ \A i \in DOMAIN members :
                 (SameWord(value, members[i].chars)
                     \/ SameWord(value, SubSeq(members[i].chars, 1, 2)))
                 => result = Found(members[i])

\* C7 witness: the 2-letter prefix of AURAM, in mixed case, parsed to AURAM,
\* whose first letter alone is shared with two other forms.
C7_Witness ==
    /\ cls = "HermeticForm"
    /\ value = <<"a", "U">>
    /\ result = [member |-> "AURAM", error |-> ""]

\* C12: each of "spring", "summer", "autumn", "winter" and the alias "fall",
\* written in any letter case, parses to the member that the canonical
\* lowercase name parses to; "fall" parses to AUTUMN.
C12_SeasonsAnyCase ==
    (cls = "Seasons" /\ result # Pending)
    => \A i \in DOMAIN SeasonsEnum :
          (\E w \in Spellings(SeasonsEnum[i]) : SameWord(value, w))
          => /\ result = Found(SeasonsEnum[i])
             /\ result = Seasons_call(SeasonsEnum, SeasonsEnum[i].value)

====
